---- MODULE Spec2Model ----
(***************************************************************************)
(* Model of setupmeta/versioning.py: parsing of 'git describe' output into *)
(* a Version, the version resolver (git_version), auto_fill_version, and   *)
(* the bump workflow (bump, update_sources, updated_line, run_git).        *)
(*                                                                         *)
(* Python strings are modelled as sequences of one-character strings, so   *)
(* that the regular expression, LooseVersion's component split, substring  *)
(* tests and string formatting are computed character by character.        *)
(***************************************************************************)
EXTENDS Integers, Sequences, FiniteSets, TLC

(***************************************************************************)
(* Characters and elementary string functions                              *)
(***************************************************************************)

\* Python's None (distinct from every character sequence)
None == <<"None">>

\* the element of a one-element set: Only({F(x) : x \in {e}}) is F(e), with x the
\* value of e
Only(S) == CHOOSE x \in S : TRUE

Digits == <<"0", "1", "2", "3", "4", "5", "6", "7", "8", "9">>

Lower == <<"a", "b", "c", "d", "e", "f", "g", "h", "i", "j", "k", "l", "m",
           "n", "o", "p", "q", "r", "s", "t", "u", "v", "w", "x", "y", "z">>

Upper == <<"A", "B", "C", "D", "E", "F", "G", "H", "I", "J", "K", "L", "M",
           "N", "O", "P", "Q", "R", "S", "T", "U", "V", "W", "X", "Y", "Z">>

IsDigit(c) == \E i \in DOMAIN Digits : Digits[i] = c

IsLower(c) == \E i \in DOMAIN Lower : Lower[i] = c

IsUpper(c) == \E i \in DOMAIN Upper : Upper[i] = c

\* \w of the re module: letters, digits and the underscore
IsWord(c) == IsDigit(c) \/ IsLower(c) \/ IsUpper(c) \/ c = "_"

\* str.isspace for the characters that occur in the model
IsSpace(c) == c \in {" ", "\n"}

\* case folding done by re.IGNORECASE
ToLower(c) == IF IsUpper(c) THEN Lower[CHOOSE i \in DOMAIN Upper : Upper[i] = c] ELSE c

LowerStr(s) == [i \in DOMAIN s |-> ToLower(s[i])]

DigitVal(c) == (CHOOSE i \in DOMAIN Digits : Digits[i] = c) - 1

\* the part of s from position i to its end
Tail_(s, i) == SubSeq(s, i, Len(s))

\* s.startswith(p)
StartsWith(s, p) == Len(p) <= Len(s) /\ SubSeq(s, 1, Len(p)) = p

\* s.startswith(p), from position i of s
StartsAt(s, i, p) == i + Len(p) - 1 <= Len(s) /\ SubSeq(s, i, i + Len(p) - 1) = p

\* p in s
Contains(s, p) == \E i \in 1..(Len(s) + 1) : StartsAt(s, i, p)

\* position of the first occurrence of p in s, 0 when there is none
Find(s, p) ==
    IF Contains(s, p)
    THEN CHOOSE i \in 1..(Len(s) + 1) :
            StartsAt(s, i, p) /\ \A j \in 1..(i - 1) : ~StartsAt(s, j, p)
    ELSE 0

\* s.replace(p, ''), p not empty
RECURSIVE Remove(_, _)
Remove(s, p) ==
    Only({ IF i = 0 THEN s
           ELSE SubSeq(s, 1, i - 1) \o Only({Remove(rest, p) : rest \in {Tail_(s, i + Len(p))}})
           : i \in {Find(s, p)} })

\* s.strip(chars) for a predicate on characters given as a set
StripSet(s, cs) ==
    LET keep == {i \in DOMAIN s : s[i] \notin cs}
    IN  IF keep = {} THEN <<>>
        ELSE SubSeq(s, CHOOSE i \in keep : \A j \in keep : i <= j,
                       CHOOSE i \in keep : \A j \in keep : i >= j)

\* s.strip()
Strip(s) == StripSet(s, {" ", "\n"})

\* int(s) for a string of decimal digits
RECURSIVE ToInt(_)
ToInt(s) ==
    IF s = <<>> THEN 0
    ELSE 10 * Only({ToInt(front) : front \in {SubSeq(s, 1, Len(s) - 1)}}) + DigitVal(s[Len(s)])

\* '%s' % n for an integer n >= 0
RECURSIVE IntToStr(_)
IntToStr(n) ==
    IF n < 10 THEN <<Digits[n + 1]>>
    ELSE IntToStr(n \div 10) \o <<Digits[(n % 10) + 1]>>

\* the characters that occur in s
Chars(s) == {s[k] : k \in DOMAIN s}

\* end of the longest run of characters of the class that starts at i (i - 1 when empty)
RunEnd(s, i, class) ==
    CHOOSE j \in (i - 1)..Len(s) :
        /\ \A k \in i..j : s[k] \in class
        /\ (j < Len(s) => s[j + 1] \notin class)

(***************************************************************************)
(* RE_GIT_DESCRIBE = ^v?(.+?)(-\d+)?(-g\w+)?(-(dirty|broken))*$            *)
(* matched case-insensitively, with Python's backtracking order: the       *)
(* optional v is tried first, the main group is the shortest that lets the *)
(* rest of the text match, the optional groups are greedy.                 *)
(***************************************************************************)

\* end of group 2, (-\d+)?, tried at position p; p - 1 when the group does not take part
ChangesEnd(t, p) ==
    IF p + 1 <= Len(t) /\ t[p] = "-" /\ IsDigit(t[p + 1])
    THEN RunEnd(t, p + 1, {c \in Chars(t) : IsDigit(c)})
    ELSE p - 1

\* end of group 3, (-g\w+)?, tried at position q; q - 1 when the group does not take part
CommitEnd(t, q) ==
    IF q + 2 <= Len(t) /\ t[q] = "-" /\ ToLower(t[q + 1]) = "g" /\ IsWord(t[q + 2])
    THEN RunEnd(t, q + 2, {c \in Chars(t) : IsWord(c)})
    ELSE q - 1

\* (-(dirty|broken))*$ from position r; $ also matches before a final newline
RECURSIVE SuffixesMatch(_, _)
SuffixesMatch(t, r) ==
    IF r > Len(t) THEN TRUE
    ELSE IF r = Len(t) /\ t[r] = "\n" THEN TRUE
    ELSE IF StartsAt(LowerStr(t), r, <<"-", "d", "i", "r", "t", "y">>)
         THEN SuffixesMatch(t, r + 6)
    ELSE IF StartsAt(LowerStr(t), r, <<"-", "b", "r", "o", "k", "e", "n">>)
         THEN SuffixesMatch(t, r + 7)
    ELSE FALSE

\* the text after a main group ending at e matches (-\d+)?(-g\w+)?(-(dirty|broken))*$
RestMatches(t, e) ==
    SuffixesMatch(t, CommitEnd(t, ChangesEnd(t, e + 1) + 1) + 1)

\* ends of the main group (.+?) starting at position start for which the whole text matches
MainEnds(t, start) ==
    {e \in start..Len(t) : (\A k \in start..e : t[k] # "\n") /\ RestMatches(t, e)}

\* the groups 1, 2, 3 of the match of t whose main group is t[start..e]
Groups(t, start, e) ==
    Only({ Only({ [ok |-> TRUE,
                   g1 |-> SubSeq(t, start, e),
                   g2 |-> IF ce > e THEN SubSeq(t, e + 1, ce) ELSE None,
                   g3 |-> IF ge > ce THEN SubSeq(t, ce + 1, ge) ELSE None]
                  : ge \in {CommitEnd(t, ce + 1)} })
           : ce \in {ChangesEnd(t, e + 1)} })

\* the match with the main group starting at start, ok = FALSE when there is none
MatchFrom(t, start) ==
    Only({ IF ends = {}
           THEN [ok |-> FALSE, g1 |-> None, g2 |-> None, g3 |-> None]
           ELSE Groups(t, start, CHOOSE x \in ends : \A y \in ends : x <= y)
           : ends \in {MainEnds(t, start)} })

\* RE_GIT_DESCRIBE.match(t): the groups 1, 2, 3 of the match, or ok = FALSE
ReMatch(t) ==
    Only({ IF Len(t) >= 1 /\ ToLower(t[1]) = "v" /\ withV.ok THEN withV ELSE MatchFrom(t, 1)
           : withV \in {MatchFrom(t, 2)} })

(***************************************************************************)
(* distutils.version.LooseVersion                                          *)
(***************************************************************************)

\* class of a character for component_re = (\d+ | [a-z]+ | \.)
CharClass(c) ==
    IF IsDigit(c) THEN "digit"
    ELSE IF IsLower(c) THEN "alpha"
    ELSE IF c = "." THEN "dot"
    ELSE "other"

IntComp(n) == [int |-> TRUE, n |-> n, s |-> <<>>]

StrComp(s) == [int |-> FALSE, n |-> 0, s |-> s]

\* LooseVersion(s).version from position i: the pieces of component_re.split(s)
\* that are neither empty nor '.', the digit runs converted to integers
RECURSIVE ComponentsFrom(_, _)
ComponentsFrom(s, i) ==
    IF i > Len(s) THEN <<>>
    ELSE IF s[i] = "." THEN ComponentsFrom(s, i + 1)
    ELSE Only({ <<IF IsDigit(s[i]) THEN IntComp(ToInt(SubSeq(s, i, j)))
                   ELSE StrComp(SubSeq(s, i, j))>>
                 \o ComponentsFrom(s, j + 1)
                 : j \in {RunEnd(s, i, {c \in Chars(s) : CharClass(c) = CharClass(s[i])})} })

\* LooseVersion(s).version
LooseVersion(s) == Only({ComponentsFrom(v, 1) : v \in {s}})

(***************************************************************************)
(* class Version                                                           *)
(***************************************************************************)

\* strip_dash with the marker letter stripped as well: text.strip('-g')
strip_dash_and_g(text) ==
    IF text = None \/ text = <<>> THEN text ELSE StripSet(text, {"-", "g"})

strip_dash(text) ==
    IF text = None \/ text = <<>> THEN text ELSE StripSet(text, {"-"})

\* len(self.version.version) < 3 on the components of the main group
IsShort(comps) == Len(comps) < 3

\* the suffix appended for the number of changes, always with the 'b' form
ChangesSuffixAlwaysB(short, changes) ==
    IF changes # 0 THEN <<"b">> \o IntToStr(changes) ELSE <<>>

\* '.%s' % changes for a short main, else 'b%s' % changes when there are changes
ChangesSuffix(short, changes) ==
    IF short THEN <<".">> \o IntToStr(changes)
    ELSE IF changes # 0 THEN <<"b">> \o IntToStr(changes)
    ELSE <<>>

\* the suffixes of lines 64-69 with dev and the commit put before broken
FlagSuffixDevFirst(broken, dirty, commit) ==
    (IF dirty
     THEN <<"d", "e", "v">>
          \o (IF commit # None /\ commit # <<>> THEN <<"-">> \o commit ELSE <<>>)
     ELSE <<>>)
    \o (IF broken THEN <<"b", "r", "o", "k", "e", "n">> ELSE <<>>)

\* 'broken' if broken, then 'dev' and '-' + commit if dirty
FlagSuffix(broken, dirty, commit) ==
    (IF broken THEN <<"b", "r", "o", "k", "e", "n">> ELSE <<>>)
    \o (IF dirty
        THEN <<"d", "e", "v">>
             \o (IF commit # None /\ commit # <<>> THEN <<"-">> \o commit ELSE <<>>)
        ELSE <<>>)

\* lines 49-56 of __init__ for the match m of text: the parsed parts
Parsed(text, m) ==
    Only({ [main    |-> m.g1,
            changes |-> IF g2 # None /\ g2 # <<>> THEN ToInt(g2) ELSE 0,
            commit  |-> strip_dash(m.g3),
            dirty   |-> Contains(text, <<"-", "d", "i", "r", "t", "y">>),
            broken  |-> Contains(text, <<"-", "b", "r", "o", "k", "e", "n">>),
            short   |-> IsShort(LooseVersion(m.g1))]
           : g2 \in {strip_dash(m.g2)} })

\* lines 57-69 of __init__: the canonical string of the parsed parts p
Canonical(p) ==
    p.main \o ChangesSuffix(p.short, p.changes) \o FlagSuffix(p.broken, p.dirty, p.commit)

\* the object for a text that RE_GIT_DESCRIBE does not match (lines 43-48)
Unmatched(text) ==
    [text |-> Strip(text), canonical |-> text,
     version |-> LooseVersion(Strip(text)), main |-> None,
     changes |-> 0, haschanges |-> FALSE, commit |-> None,
     dirty |-> FALSE, broken |-> FALSE, auto_patch |-> FALSE]

\* the object for a text that RE_GIT_DESCRIBE matches (lines 49-70)
Matched(text, m) ==
    Only({ Only({ [text |-> Strip(text), canonical |-> canon,
                   version |-> LooseVersion(canon), main |-> p.main,
                   changes |-> p.changes, haschanges |-> TRUE, commit |-> p.commit,
                   dirty |-> p.dirty, broken |-> p.broken, auto_patch |-> p.short]
                  : canon \in {Canonical(p)} })
           : p \in {Parsed(text, m)} })

\* Version(text): the fields of the object after __init__. The field changes is an
\* integer; haschanges = FALSE stands for the class default changes = None.
Version(text) ==
    Only({ IF ~m.ok THEN Unmatched(t) ELSE Matched(t, m)
           : <<t, m>> \in {<<x, ReMatch(x)>> : x \in {text}} })

(***************************************************************************)
(* update_sources and updated_line                                         *)
(***************************************************************************)

Quote == "'"

\* line.partition(sep): the parts before and after the first sep (all of the line
\* and '' when sep does not occur)
PartitionKey(line, sep) ==
    Only({IF i = 0 THEN line ELSE SubSeq(line, 1, i - 1) : i \in {Find(line, <<sep>>)}})

PartitionValue(line, sep) ==
    Only({IF i = 0 THEN <<>> ELSE Tail_(line, i + 1) : i \in {Find(line, <<sep>>)}})

\* the replacement of lines 238-244 with the comma added whatever the line
ReplacementAlwaysComma(line, sep, next_version) ==
    IF sep = "="
    THEN <<Quote>> \o next_version \o <<Quote, ",">>
    ELSE next_version

\* lines 238-244: the text that replaces the value, for the separator sep
Replacement(line, sep, next_version) ==
    IF sep = "="
    THEN <<Quote>> \o next_version \o <<Quote>>
         \o (IF ~StartsWith(Strip(line), <<"_">>) THEN <<",">> ELSE <<>>)
    ELSE next_version

\* updated_line(line, next_version, vdef): the revised line, None for an unknown format
updated_line(line, next_version) ==
    Only({ Only({ IF key = <<>> \/ value = <<>> THEN None
                  ELSE key \o <<sep>> \o (IF value[1] = " " THEN <<" ">> ELSE <<>>)
                           \o Replacement(line, sep, next_version) \o <<"\n">>
                  : <<key, value>> \in {<<PartitionKey(line, sep), PartitionValue(line, sep)>>} })
           : sep \in {IF Contains(line, <<"=">>) THEN "=" ELSE ":"} })

\* the loop of lines 204-216 with an unchanged revised line kept as a revision
RevisedLinesKeepingSame(old, target, next_version) ==
    IF target \notin DOMAIN old THEN old
    ELSE Only({ IF revised = None THEN <<>>
                ELSE [k \in DOMAIN old |-> IF k = target THEN revised ELSE old[k]]
                : revised \in {updated_line(old[target], next_version)} })

\* lines 204-216: the value of lines after the loop over the lines old of a file,
\* with <<>> for both None and the empty list
RevisedLines(old, target, next_version) ==
    IF target \notin DOMAIN old THEN old
    ELSE Only({ IF revised = None \/ revised = old[target] THEN <<>>
                ELSE [k \in DOMAIN old |-> IF k = target THEN revised ELSE old[k]]
                : revised \in {updated_line(old[target], next_version)} })

\* the loop body of update_sources for one source, on the files fs and the list
\* mod of paths modified so far: the new files and list, or the exception raised
UpdateOne(source, fs, mod, next_version, commit_) ==
    IF ~Contains(source, <<".", "p", "y", ":">>)
    THEN [files |-> fs, modified |-> mod, err |-> "none"]
    ELSE Only({
        IF number = <<>> \/ \E k \in DOMAIN number : ~IsDigit(number[k])
        THEN [files |-> fs, modified |-> mod, err |-> "ValueError"]
        ELSE IF relative_path \notin DOMAIN fs
        THEN [files |-> fs, modified |-> mod, err |-> "IOError"]
        ELSE Only({
            IF lines = <<>>
            THEN [files |-> fs, modified |-> mod, err |-> "none"]
            ELSE IF commit_
            THEN [files |-> [fs EXCEPT ![relative_path] = lines],
                  modified |-> Append(mod, relative_path), err |-> "none"]
            ELSE IF ToInt(number) \notin DOMAIN lines
            THEN [files |-> fs, modified |-> Append(mod, relative_path),
                  err |-> "AttributeError"]
            ELSE [files |-> fs, modified |-> Append(mod, relative_path), err |-> "none"]
            : lines \in {RevisedLines(fs[relative_path], ToInt(number), next_version)} })
        : <<relative_path, number>> \in
            {<<PartitionKey(source, ":"), PartitionValue(source, ":")>>} })

\* the for loop of update_sources from source number i on
RECURSIVE UpdateLoop(_, _, _, _, _, _)
UpdateLoop(sources, i, fs, mod, next_version, commit_) ==
    IF i > Len(sources) THEN [files |-> fs, modified |-> mod, err |-> "none"]
    ELSE Only({ IF r.err # "none" THEN r
                 ELSE UpdateLoop(sources, i + 1, r.files, r.modified, next_version, commit_)
                 : r \in {UpdateOne(sources[i], fs, mod, next_version, commit_)} })

(***************************************************************************)
(* bump: the computation of the next version                               *)
(***************************************************************************)

\* '%s' % c for a component of a LooseVersion
CompStr(c) == IF c.int THEN IntToStr(c.n) ELSE c.s

\* (major, minor, rev) left as they are
BumpedNothing(comps, what_) == <<comps[1], comps[2], comps[3]>>

\* (major, minor, rev) after the bump, for what_ in major, minor, patch
Bumped(comps, what_) ==
    IF what_ = "major" THEN <<IntComp(comps[1].n + 1), IntComp(0), IntComp(0)>>
    ELSE IF what_ = "minor" THEN <<comps[1], IntComp(comps[2].n + 1), IntComp(0)>>
    ELSE <<comps[1], comps[2], IntComp(comps[3].n + 1)>>

\* the component a bump adds 1 to
BumpedIndex(what_) == IF what_ = "major" THEN 1 ELSE IF what_ = "minor" THEN 2 ELSE 3

\* "%s.%s" % (major, minor) with auto_patch, else "%s.%s.%s" % (major, minor, rev)
NextVersionString(triple, auto_patch) ==
    IF auto_patch
    THEN CompStr(triple[1]) \o <<".">> \o CompStr(triple[2])
    ELSE CompStr(triple[1]) \o <<".">> \o CompStr(triple[2]) \o <<".">> \o CompStr(triple[3])

\* lines 158-173 of bump for the resolved version v: the next version or the exception
ComputeNext(v, what_) ==
    IF Len(v.version) < 3
    THEN [err |-> "ValueError", msg |-> "unpack", next |-> None]
    ELSE IF what_ \notin {"major", "minor", "patch"}
    THEN [err |-> "UsageError", msg |-> "UnknownTarget", next |-> None]
    ELSE IF what_ = "patch" /\ v.auto_patch
    THEN [err |-> "UsageError", msg |-> "AutoPatch", next |-> None]
    ELSE IF ~v.version[BumpedIndex(what_)].int
    THEN [err |-> "TypeError", msg |-> "add", next |-> None]
    ELSE [err |-> "none", msg |-> "none",
          next |-> Only({NextVersionString(t, v.auto_patch)
                         : t \in {Bumped(SubSeq(v.version, 1, 3), what_)}})]

(***************************************************************************)
(* get_pkg_version                                                         *)
(***************************************************************************)

\* line.strip().split(): the whitespace-separated words of s from position i
RECURSIVE WordsFrom(_, _)
WordsFrom(s, i) ==
    IF i > Len(s) THEN <<>>
    ELSE IF IsSpace(s[i]) THEN WordsFrom(s, i + 1)
    ELSE Only({ <<SubSeq(s, i, j)>> \o WordsFrom(s, j + 1)
                 : j \in {RunEnd(s, i, {c \in Chars(s) : ~IsSpace(c)})} })

\* the loop of get_pkg_version over the lines of PKG-INFO from line i on
RECURSIVE PkgVersionFrom(_, _)
PkgVersionFrom(lines, i) ==
    IF i > Len(lines) THEN None
    ELSE Only({ IF StartsWith(lines[i], <<"V", "e", "r", "s", "i", "o", "n", ":">>)
                    /\ Len(s) > 1
                 THEN s[2] \o <<"P">>
                 ELSE PkgVersionFrom(lines, i + 1)
                 : s \in {WordsFrom(lines[i], 1)} })

\* get_pkg_version(): pkg is None when there is no PKG-INFO file, else its lines
get_pkg_version(pkg) == IF pkg = None THEN None ELSE PkgVersionFrom(pkg, 1)

(***************************************************************************)
(* git_version                                                             *)
(***************************************************************************)

\* get_git_output(...): None without a .git directory, else what run_program returns
get_git_output(git_dir, output) == IF ~git_dir THEN None ELSE output

\* r is None and try_pkg
TakesFallback(r, try_pkg_) == r = None /\ try_pkg_

\* lines 116-117 for a describe output r that is a string
Corrected(r, exitcode) ==
    IF exitcode = 0 /\ Contains(r, <<"-", "d", "i", "r", "t", "y">>)
    THEN Remove(r, <<"-", "d", "i", "r", "t", "y">>)
    ELSE r

\* the git describe query, run only in a git project
DescribeQuery(git_dir) == IF git_dir THEN <<"describe">> ELSE <<>>

\* lines 119-122: Version(r) for a non-empty r, else None
Wrapped(r) == Only({IF x # None /\ x # <<>> THEN <<Version(x)>> ELSE <<>> : x \in {r}})

\* git_version(try_pkg) in an environment where describe prints desc (None when it
\* fails), diff exits with exitcode and PKG-INFO is pkg. val is <<>> for None and
\* <<v>> for a Version v; queries lists the git commands that were run.
git_version(try_pkg_, git_dir, desc, exitcode, pkg) ==
    Only({ IF TakesFallback(r0, try_pkg_)
           THEN [err |-> "none", val |-> Wrapped(get_pkg_version(pkg)),
                 queries |-> DescribeQuery(git_dir)]
           ELSE IF ~git_dir
           THEN [err |-> "TypeError", val |-> <<>>, queries |-> DescribeQuery(git_dir)]
           ELSE IF exitcode = 0 /\ r0 = None
           THEN [err |-> "TypeError", val |-> <<>>,
                 queries |-> DescribeQuery(git_dir) \o <<"diff">>]
           ELSE [err |-> "none",
                 val |-> Wrapped(IF r0 = None THEN None ELSE Corrected(r0, exitcode)),
                 queries |-> DescribeQuery(git_dir) \o <<"diff">>]
           : r0 \in {get_git_output(git_dir, desc)} })

(***************************************************************************)
(* run_git and the operations handed to setupmeta.run_program              *)
(***************************************************************************)

\* the mode of run_git with the commit flag ignored
GitModeAlwaysFatal(commit_) == "fatal passthrough"

\* the mode run_git passes to get_git_output
GitMode(commit_) == IF commit_ THEN "fatal passthrough" ELSE "dryrun"

\* the mode of the hook command
HookMode(commit_) == IF commit_ THEN "passthrough fatal" ELSE "dryrun"

VersionMsg(next_version) == <<"V", "e", "r", "s", "i", "o", "n", " ">> \o next_version

TagName(next_version) == <<"v">> \o next_version

\* one operation handed to run_program: op is the git subcommand (or "hook")
Op(op, mode, name, msg, paths) ==
    [op |-> op, mode |-> mode, name |-> name, msg |-> msg, paths |-> paths]

AddOp(commit_, paths) == Op("add", GitMode(commit_), <<>>, <<>>, paths)

CommitOp(commit_, next_version) ==
    Op("commit", GitMode(commit_), <<>>, VersionMsg(next_version), <<>>)

TagOp(commit_, next_version) ==
    Op("tag", GitMode(commit_), TagName(next_version), VersionMsg(next_version), <<>>)

\* git push --tags origin branch: name is the branch
PushOp(commit_, branch_) == Op("push", GitMode(commit_), branch_, <<>>, <<"origin">>)

\* versioning.partition('+')[2]: the hook command
HookCmd(versioning_) == PartitionValue(versioning_, "+")

HookOp(commit_, versioning_) == Op("hook", HookMode(commit_), HookCmd(versioning_), <<>>, <<>>)

\* run_program performs the command unless the mode is dryrun
Executes(o) == o.mode # "dryrun"

\* the repository after run_program has performed the operation o
Performed(rp, o) ==
    IF o.op = "add" THEN [rp EXCEPT !.staged = o.paths]
    ELSE IF o.op = "commit"
    THEN [rp EXCEPT !.commits = Append(@, [msg |-> o.msg, paths |-> rp.staged]),
                    !.staged = <<>>]
    ELSE IF o.op = "tag" THEN [rp EXCEPT !.tags = Append(@, [name |-> o.name, msg |-> o.msg])]
    ELSE IF o.op = "push" THEN [rp EXCEPT !.pushed = Append(@, o.name)]
    ELSE [rp EXCEPT !.hooks = Append(@, o.name)]

(***************************************************************************)
(* The environment and the inputs of a run                                 *)
(***************************************************************************)

\* the largest number of commits since the tag in a describe output
MaxChanges == 1

\* the largest number of components of a tag's version
MaxComponents == 4

S_master == <<"m", "a", "s", "t", "e", "r">>

S_dirty == <<"-", "d", "i", "r", "t", "y">>

S_broken == <<"-", "b", "r", "o", "k", "e", "n">>

\* the versions 1, 1.4, 1.4.3, 1.4.3.2, ... of at most MaxComponents components
RECURSIVE TagVersion(_)
TagVersion(k) ==
    IF k = 1 THEN <<"1">>
    ELSE TagVersion(k - 1) \o <<".", Digits[((6 - k) % 10) + 1]>>

\* tags: v1, v1.4, v1.4.3, ..., and 2.0.0 without the v
Tags == {<<"v">> \o TagVersion(k) : k \in 1..MaxComponents} \cup {<<"2", ".", "0", ".", "0">>}

\* what git describe adds for n commits since the tag
Since(n) == IF n = 0 THEN <<>> ELSE <<"-">> \o IntToStr(n) \o <<"-", "g", "a", "b", "c", "1">>

\* outputs of git describe --tags --dirty --broken: None when it fails
Describes ==
    {None, <<>>}
    \cup {t \o Since(n) \o f : t \in Tags, n \in 0..MaxChanges, f \in {<<>>, S_dirty, S_broken}}

\* the describe output of a clean tree at the tag v1-dir-dirtyty
T_dir_dirtyty == <<"v", "1", "-", "d", "i", "r", "-", "d", "i", "r", "t", "y", "t", "y">>

\* meta.value('versioning')
Versionings ==
    {None, <<"t", "a", "g">>, <<"t", "a", "g", "+", "h">>, <<"d", "e", "v">>}

\* outputs of git rev-parse --abbrev-ref HEAD
Branches == {None, S_master \o <<"\n">>, <<"d", "e", "v", "\n">>}

P_a == <<"a", ".", "p", "y">>

P_b == <<"b", ".", "p", "y">>

\* the files of the project: a.py has an assignment to an underscore name and a line
\* of unknown format, b.py a keyword argument and a key-value line
Files0 ==
    (P_a :> << <<"_", "v", " ", "=", " ", Quote, "1", Quote, "\n">>,
               <<"x", "\n">> >>)
    @@ (P_b :> << <<"v", "=", Quote, "2", ".", "0", ".", "0", Quote, ",", "\n">>,
                  <<"V", ":", " ", "1", "\n">> >>)

\* meta.definitions.get('version'): None, or the sources of the definition
VersionSources ==
    {None,
     << P_a \o <<":", "1">> >>,
     << P_a \o <<":", "1">>, P_b \o <<":", "1">>, <<"s", ".", "c", "f", "g", ":", "1">> >>,
     << P_a \o <<":", "2">>, P_b \o <<":", "2">> >>,
     << P_b \o <<":", "3">> >>}

Repo0 == [staged |-> <<>>, commits |-> <<>>, tags |-> <<>>, pushed |-> <<>>, hooks |-> <<>>]

NoError == [kind |-> "none", msg |-> "none"]

VARIABLES
    cmd,          \* the function called: "bump", "git_version" or "Version"
    versioning,   \* meta.value('versioning')
    what,         \* bump's argument what
    commit,       \* bump's argument commit
    vdefs,        \* meta.definitions.get('version'): None or its sources
    try_pkg,      \* git_version's argument
    git_dir,      \* whether the project has a .git directory
    branch_out,   \* what git rev-parse prints
    describe_out, \* what git describe prints
    diff_exit,    \* exit code of git diff --quiet
    pkg_info,     \* the lines of PKG-INFO, None without the file
    files,        \* the content of the project's source files
    repo,         \* what the performed git and hook commands did
    pc,           \* the position in the function
    err,          \* the exception that ended the call
    branch,       \* bump's local branch
    gv,           \* the value git_version returned: <<>> for None, <<v>> for a Version
    next_version, \* bump's local next_version
    ops,          \* the operations handed to run_program by run_git and the hook
    queries,      \* the git queries that were run
    text,         \* the argument of Version
    ver,          \* Version(text)
    ver2,         \* Version(ver.canonical)
    cv,           \* the value of the first source of the version definition, or None
    filled,       \* the version auto_fill_version filled in, None when it filled none
    warned,       \* the warnings auto_fill_version issued
    line,         \* the argument line of updated_line
    revised,      \* updated_line(line, next_version, vdef)
    revised2      \* updated_line(revised, next_version, vdef)

vars == <<cmd, versioning, what, commit, vdefs, try_pkg, git_dir, branch_out,
          describe_out, diff_exit, pkg_info, files, repo, pc, err, branch, gv,
          next_version, ops, queries, text, ver, ver2, cv, filled, warned,
          line, revised, revised2>>

env == <<cmd, versioning, what, commit, vdefs, try_pkg, git_dir, branch_out,
         describe_out, diff_exit, pkg_info, cv>>

pure == <<text, ver, ver2>>

filling == <<filled, warned>>

rewrite == <<line, revised, revised2>>

\* the state of a call before its first step
Fresh ==
    /\ files = Files0
    /\ repo = Repo0
    /\ pc = "start"
    /\ err = NoError
    /\ branch = None
    /\ gv = <<>>
    /\ next_version = None
    /\ ops = <<>>
    /\ queries = <<>>
    /\ filled = None
    /\ warned = <<>>

\* the git queries answer only in a project with a .git directory
GitEnv(describes) ==
    /\ git_dir \in BOOLEAN
    /\ branch_out \in IF git_dir THEN Branches ELSE {None}
    /\ describe_out \in IF git_dir THEN describes ELSE {None}
    /\ diff_exit \in IF git_dir THEN {0, 1} ELSE {1}

NoPure == text = <<>> /\ ver = <<>> /\ ver2 = <<>>

NoRewrite == line = <<>> /\ revised = <<>> /\ revised2 = <<>>

\* a call of bump(meta, what, commit)
InitBump ==
    /\ cmd = "bump"
    /\ versioning \in Versionings
    /\ what \in {"major", "minor", "patch", "bogus"}
    /\ commit \in BOOLEAN
    /\ vdefs \in VersionSources
    /\ try_pkg = FALSE
    /\ pkg_info = None
    /\ cv = None
    /\ GitEnv(Describes)
    /\ Fresh
    /\ NoPure
    /\ NoRewrite

Init == InitBump

Fail(kind, msg) ==
    /\ pc' = "failed"
    /\ err' = [kind |-> kind, msg |-> msg]

\* bump, lines 141-143
GateVersioning ==
    /\ cmd = "bump" /\ pc = "start"
    /\ IF versioning = None \/ versioning = <<>> \/ ~StartsWith(versioning, <<"t", "a", "g">>)
       THEN Fail("UsageError", "NotConfigured")
       ELSE pc' = "branch" /\ UNCHANGED err
    /\ UNCHANGED <<env, filling, rewrite, pure, files, repo, branch, gv, next_version, ops, queries>>

\* branch and branch.strip()
Stripped(out) == IF out = None \/ out = <<>> THEN out ELSE Strip(out)

\* bump, lines 145-148
GateBranch ==
    /\ pc = "branch"
    /\ \E b \in {Stripped(get_git_output(git_dir, branch_out))} :
           /\ branch' = b
           /\ IF b # S_master
              THEN Fail("UsageError", "WrongBranch")
              ELSE pc' = "resolve" /\ UNCHANGED err
    /\ queries' = IF git_dir THEN Append(queries, "rev-parse") ELSE queries
    /\ UNCHANGED <<env, filling, rewrite, pure, files, repo, gv, next_version, ops>>

\* git_version(try_pkg): line 150 of bump, or a call of its own
Resolve ==
    /\ pc = "resolve"
    /\ \E r \in {git_version(try_pkg, git_dir, describe_out, diff_exit, pkg_info)} :
           /\ queries' = queries \o r.queries
           /\ gv' = r.val
           /\ IF r.err # "none"
              THEN Fail(r.err, "git_version")
              ELSE pc' = (IF cmd = "bump" THEN "gates" ELSE "done") /\ UNCHANGED err
    /\ UNCHANGED <<env, filling, rewrite, pure, files, repo, branch, next_version, ops>>

\* the test of line 155 without the commit flag
DirtyGateAlways(commit_, v) == v.dirty

\* commit and gv.dirty
DirtyGate(commit_, v) == commit_ /\ v.dirty

\* bump, lines 151-156
GateVersion ==
    /\ pc = "gates"
    /\ IF gv = <<>> THEN Fail("UsageError", "NoVersion")
       ELSE IF gv[1].broken THEN Fail("UsageError", "BrokenTag")
       ELSE IF DirtyGate(commit, gv[1]) THEN Fail("UsageError", "PendingChanges")
       ELSE pc' = "compute" /\ UNCHANGED err
    /\ UNCHANGED <<env, filling, rewrite, pure, files, repo, branch, gv, next_version, ops, queries>>

\* bump, lines 158-176
Compute ==
    /\ pc = "compute"
    /\ \E r \in {ComputeNext(gv[1], what)} :
           /\ next_version' = r.next
           /\ IF r.err # "none"
              THEN Fail(r.err, r.msg)
              ELSE pc' = "update" /\ UNCHANGED err
    /\ UNCHANGED <<env, filling, rewrite, pure, files, repo, branch, gv, ops, queries>>

\* run_program on the operations os, one after the other, in the repository rp: a
\* performed operation may fail, which is fatal. ok says, for each operation,
\* whether it succeeds when performed.
RECURSIVE RunAll(_, _, _, _, _)
RunAll(os, i, ok, rp, issued) ==
    IF i > Len(os) THEN [repo |-> rp, ops |-> issued, failed |-> FALSE]
    ELSE IF ~Executes(os[i]) THEN RunAll(os, i + 1, ok, rp, Append(issued, os[i]))
    ELSE IF ~ok[i] THEN [repo |-> rp, ops |-> Append(issued, os[i]), failed |-> TRUE]
    ELSE RunAll(os, i + 1, ok, Performed(rp, os[i]), Append(issued, os[i]))

\* the operations of lines 232-234
StageAndCommit(modified, commit_, next) ==
    IF modified # <<>> THEN <<AddOp(commit_, modified), CommitOp(commit_, next)>> ELSE <<>>

\* lines 191-230 of update_sources: the files and the list modified after the loop
Updated(sources, fs, next, commit_) ==
    IF sources = None \/ sources = <<>>
    THEN [files |-> fs, modified |-> <<>>, err |-> "none"]
    ELSE UpdateLoop(sources, 1, fs, <<>>, next, commit_)

\* update_sources(meta, next_version, commit), the caller going on at pc_next
UpdateSourcesTo(pc_next) ==
    /\ \E r \in {Updated(vdefs, files, next_version, commit)} :
           /\ files' = r.files
           /\ IF r.err # "none"
              THEN Fail(r.err, "update_sources") /\ UNCHANGED <<repo, ops>>
              ELSE \E ok \in [1..2 -> BOOLEAN] :
                   \E x \in {RunAll(StageAndCommit(r.modified, commit, next_version),
                                     1, ok, repo, ops)} :
                      /\ repo' = x.repo
                      /\ ops' = x.ops
                      /\ IF x.failed
                         THEN Fail("SystemExit", "git")
                         ELSE pc' = pc_next /\ UNCHANGED err
    /\ UNCHANGED <<env, filling, rewrite, pure, branch, gv, next_version, queries>>

\* bump, line 178
UpdateSources == pc = "update" /\ UpdateSourcesTo("tag")

\* run_program with a failure of the command swallowed: the caller goes on
IssueSwallowingFailure(o, pc_next) ==
    \E ok \in BOOLEAN :
    \E x \in {RunAll(<<o>>, 1, <<ok>>, repo, ops)} :
        /\ repo' = x.repo
        /\ ops' = x.ops
        /\ pc' = pc_next /\ UNCHANGED err

\* one run_git or run_program call of bump: hand o to run_program, go to pc_next
Issue(o, pc_next) ==
    \E ok \in BOOLEAN :
    \E x \in {RunAll(<<o>>, 1, <<ok>>, repo, ops)} :
        /\ repo' = x.repo
        /\ ops' = x.ops
        /\ IF x.failed
           THEN Fail("SystemExit", o.op)
           ELSE pc' = pc_next /\ UNCHANGED err

\* bump, lines 180-181
Tag ==
    /\ pc = "tag"
    /\ Issue(TagOp(commit, next_version), "push")
    /\ UNCHANGED <<env, filling, rewrite, pure, files, branch, gv, next_version, queries>>

\* a hook run whatever the versioning
HasHookAlways(versioning_) == TRUE

\* whether bump runs a hook: '+' in versioning
HasHook(versioning_) == Contains(versioning_, <<"+">>)

\* bump, line 182
Push ==
    /\ pc = "push"
    /\ Issue(PushOp(commit, branch), IF HasHook(versioning) THEN "hook" ELSE "done")
    /\ UNCHANGED <<env, filling, rewrite, pure, files, branch, gv, next_version, queries>>

\* bump, lines 184-187
Hook ==
    /\ pc = "hook"
    /\ Issue(HookOp(commit, versioning), "done")
    /\ UNCHANGED <<env, filling, rewrite, pure, files, branch, gv, next_version, queries>>

Next ==
    \/ GateVersioning
    \/ GateBranch
    \/ Resolve
    \/ GateVersion
    \/ Compute
    \/ UpdateSources
    \/ Tag
    \/ Push
    \/ Hook

Spec == Init /\ [][Next]_vars

(***************************************************************************)
(* git_version called on its own, with and without the package fallback    *)
(***************************************************************************)

\* PKG-INFO: no file, a file with a Version: line, a file without one
PkgInfos ==
    {None,
     << <<"N", "a", "m", "e", ":", " ", "x", "\n">>,
        <<"V", "e", "r", "s", "i", "o", "n", ":", " ", "1", ".", "0", "\n">> >>,
     << <<"V", "e", "r", "s", "i", "o", "n", ":", "\n">> >>}

InitResolver ==
    /\ cmd = "git_version"
    /\ versioning = None
    /\ what = "major"
    /\ commit = FALSE
    /\ vdefs = None
    /\ try_pkg \in BOOLEAN
    /\ pkg_info \in PkgInfos
    /\ cv = None
    /\ GitEnv(Describes \cup {T_dir_dirtyty})
    /\ Fresh
    /\ NoPure
    /\ NoRewrite

\* the call git_version(try_pkg)
CallGitVersion ==
    /\ cmd = "git_version" /\ pc = "start"
    /\ pc' = "resolve"
    /\ UNCHANGED <<env, filling, rewrite, pure, files, repo, err, branch, gv, next_version, ops, queries>>

NextResolver == CallGitVersion \/ Resolve

SpecResolver == InitResolver /\ [][NextResolver]_vars

(***************************************************************************)
(* Version(text) on its own                                                *)
(***************************************************************************)

S_abc == <<"-", "g", "a", "b", "c", "1">>

T_1_2_3_5_gabc123 ==
    <<"v", "1", ".", "2", ".", "3", "-", "5", "-", "g", "a", "b", "c", "1", "2", "3">>

T_1_4_7_gdead_dirty ==
    <<"v", "1", ".", "4", "-", "7", "-", "g", "d", "e", "a", "d", "-", "d", "i", "r", "t", "y">>

\* the changes and commit parts of a describe text
Sinces ==
    {<<>>, S_abc}
    \cup {<<"-">> \o IntToStr(n) : n \in 0..MaxChanges}
    \cup {<<"-">> \o IntToStr(n) \o S_abc : n \in 0..MaxChanges}

\* the dirty and broken markers of a describe text
Markers ==
    {<<>>, S_dirty, S_broken, S_broken \o S_dirty, S_dirty \o S_broken,
     <<"-", "D", "I", "R", "T", "Y">>}

\* arguments of Version
Texts ==
    {<<>>, <<"v">>, T_1_2_3_5_gabc123, T_1_4_7_gdead_dirty,
     <<"1", ".", "0", "P">>, <<"v", "1", ".", "2", "r", "c", "1">>,
     <<"v", "1", ".", "2", ".", "3", "\n">>}
    \cup {pre \o TagVersion(k) \o since \o m :
            pre \in {<<>>, <<"v">>, <<"V">>}, k \in 1..MaxComponents,
            since \in Sinces, m \in Markers}

InitVersion ==
    /\ cmd = "Version"
    /\ versioning = None
    /\ what = "major"
    /\ commit = FALSE
    /\ vdefs = None
    /\ try_pkg = FALSE
    /\ pkg_info = None
    /\ git_dir = FALSE
    /\ branch_out = None
    /\ describe_out = None
    /\ diff_exit = 1
    /\ cv = None
    /\ Fresh
    /\ NoRewrite
    /\ text \in Texts
    /\ ver = <<>>
    /\ ver2 = <<>>

\* v = Version(text)
Construct ==
    /\ cmd = "Version" /\ pc = "start"
    /\ ver' = <<Version(text)>>
    /\ pc' = "parsed"
    /\ UNCHANGED <<env, filling, rewrite, text, ver2, files, repo, err, branch, gv, next_version, ops, queries>>

\* Version(v.canonical)
Reconstruct ==
    /\ pc = "parsed"
    /\ ver2' = <<Version(ver[1].canonical)>>
    /\ pc' = "done"
    /\ UNCHANGED <<env, filling, rewrite, text, ver, files, repo, err, branch, gv, next_version, ops, queries>>

NextVersion == Construct \/ Reconstruct

SpecVersion == InitVersion /\ [][NextVersion]_vars

(***************************************************************************)
(* auto_fill_version(meta), and bump, in projects with a broken describe   *)
(***************************************************************************)

T_v2_0_0_broken == <<"v", "2", ".", "0", ".", "0">> \o S_broken

\* vdef.sources[0].value: None without a version definition
CurrentValues == {None, <<"1", ".", "4">>, <<"2", ".", "0", ".", "0">>}

\* lines 82-94 with the test of gv.broken left out
AutoFilledDespiteBroken(g, cv_) ==
    IF g = <<>> THEN [filled |-> None, warned |-> <<>>]
    ELSE [filled |-> g[1].canonical,
          warned |-> IF cv_ # None /\ cv_ # <<>> /\ ~StartsWith(g[1].canonical, cv_)
                     THEN <<"Mismatch">> ELSE <<>>]

\* lines 82-94 of auto_fill_version for the value g of git_version and the current
\* value cv_: the version handed to meta.auto_fill and the warnings issued
AutoFilled(g, cv_) ==
    IF g = <<>> THEN [filled |-> None, warned |-> <<>>]
    ELSE IF g[1].broken THEN [filled |-> None, warned |-> <<"InvalidTag">>]
    ELSE [filled |-> g[1].canonical,
          warned |-> IF cv_ # None /\ cv_ # <<>> /\ ~StartsWith(g[1].canonical, cv_)
                     THEN <<"Mismatch">> ELSE <<>>]

\* a call of auto_fill_version(meta)
InitAutoFill ==
    /\ cmd = "auto_fill_version"
    /\ versioning = <<"t", "a", "g">>
    /\ what = "major"
    /\ commit = FALSE
    /\ vdefs = None
    /\ try_pkg = TRUE
    /\ pkg_info \in PkgInfos
    /\ cv \in CurrentValues
    /\ GitEnv(Describes \cup {T_v2_0_0_broken})
    /\ Fresh
    /\ NoPure
    /\ NoRewrite

\* a call of bump in a project where git describe may print v2.0.0-broken
InitBumpBroken ==
    /\ cmd = "bump"
    /\ versioning \in Versionings
    /\ what \in {"major", "minor", "patch", "bogus"}
    /\ commit \in BOOLEAN
    /\ vdefs \in {None, << P_a \o <<":", "1">> >>}
    /\ try_pkg = FALSE
    /\ pkg_info = None
    /\ cv = None
    /\ GitEnv(Describes \cup {T_v2_0_0_broken})
    /\ Fresh
    /\ NoPure
    /\ NoRewrite

\* auto_fill_version, lines 81-94
AutoFill ==
    /\ cmd = "auto_fill_version" /\ pc = "start"
    /\ \E r \in {git_version(try_pkg, git_dir, describe_out, diff_exit, pkg_info)} :
           /\ queries' = r.queries
           /\ gv' = r.val
           /\ IF r.err # "none"
              THEN Fail(r.err, "git_version") /\ UNCHANGED filling
              ELSE \E a \in {AutoFilled(r.val, cv)} :
                      /\ filled' = a.filled
                      /\ warned' = a.warned
                      /\ pc' = "done" /\ UNCHANGED err
    /\ UNCHANGED <<env, rewrite, pure, files, repo, branch, next_version, ops>>

NextFlows == Next \/ AutoFill

SpecFlows == (InitBumpBroken \/ InitAutoFill) /\ [][NextFlows]_vars

(***************************************************************************)
(* updated_line(line, next_version, vdef) and update_sources on their own  *)
(***************************************************************************)

\* lines: an indentation, a key, a separator, a value and an end
LineKeys == {<<>>, <<"v">>, <<"_", "v">>}

LineSeps ==
    {<<>>, <<"=">>, <<" ", "=", " ">>, <<":">>, <<":", " ">>, <<":", " ", "a", "=">>}

LineValues == {<<>>, <<"1">>, <<Quote, "1", Quote, ",">>}

Lines ==
    {ind \o key \o sep \o value \o end :
        ind \in {<<>>, <<" ">>}, key \in LineKeys, sep \in LineSeps,
        value \in LineValues, end \in {<<>>, <<"\n">>}}

\* values of next_version
NextVersions == {<<"2", ".", "0", ".", "0">>, <<"1", ".", "5">>}

\* no git query is answered and no version is resolved
NoGit ==
    /\ versioning = None
    /\ what = "major"
    /\ try_pkg = FALSE
    /\ pkg_info = None
    /\ git_dir = FALSE
    /\ branch_out = None
    /\ describe_out = None
    /\ diff_exit = 1
    /\ cv = None
    /\ branch = None
    /\ gv = <<>>
    /\ queries = <<>>
    /\ filled = None
    /\ warned = <<>>

\* a call of updated_line(line, next_version, vdef)
InitLine ==
    /\ cmd = "updated_line"
    /\ commit = FALSE
    /\ vdefs = None
    /\ NoGit
    /\ NoPure
    /\ files = Files0
    /\ repo = Repo0
    /\ ops = <<>>
    /\ err = NoError
    /\ pc = "start"
    /\ next_version \in NextVersions
    /\ line \in Lines
    /\ revised = <<>>
    /\ revised2 = <<>>

\* a call of update_sources(meta, next_version, commit)
InitUpdate ==
    /\ cmd = "update_sources"
    /\ commit \in BOOLEAN
    /\ vdefs \in VersionSources
    /\ NoGit
    /\ NoPure
    /\ NoRewrite
    /\ files = Files0
    /\ repo = Repo0
    /\ ops = <<>>
    /\ err = NoError
    /\ pc = "update"
    /\ next_version \in NextVersions

\* revised = updated_line(line, next_version, vdef)
Rewrite ==
    /\ cmd = "updated_line" /\ pc = "start"
    /\ revised' = <<updated_line(line, next_version)>>
    /\ pc' = "revised"
    /\ UNCHANGED <<env, filling, pure, line, revised2, files, repo, err, branch, gv, next_version, ops, queries>>

\* updated_line(revised, next_version, vdef), for a revised line that is not None
RewriteAgain ==
    /\ cmd = "updated_line" /\ pc = "revised"
    /\ revised[1] # None
    /\ revised2' = <<updated_line(revised[1], next_version)>>
    /\ pc' = "done"
    /\ UNCHANGED <<env, filling, pure, line, revised, files, repo, err, branch, gv, next_version, ops, queries>>

\* a second call of update_sources with the same next_version, after the first returned
UpdateSourcesAgain ==
    /\ cmd = "update_sources" /\ pc = "tag"
    /\ UpdateSourcesTo("done")

NextUpdate == Rewrite \/ RewriteAgain \/ UpdateSources \/ UpdateSourcesAgain

SpecUpdate == (InitLine \/ InitUpdate) /\ [][NextUpdate]_vars

(***************************************************************************)
(* Properties                                                              *)
(***************************************************************************)

\* the messages of the usage errors raised by the gates of lines 141-156
GateMsgs == {"NotConfigured", "WrongBranch", "NoVersion", "BrokenTag", "PendingChanges"}

\* bump is past its validation gates (lines 141-156)
PassedGates ==
    /\ cmd = "bump"
    /\ \/ pc \in {"compute", "update", "tag", "push", "hook", "done"}
       \/ pc = "failed" /\ err.msg \notin GateMsgs \cup {"git_version"}

\* bump is past the computation of the next version (lines 158-173)
ComputeActed == PassedGates /\ pc # "compute"

\* bump is past the call of git_version
ResolveActed == cmd = "bump" /\ branch = S_master /\ pc \notin {"start", "branch", "resolve"}

NoEffects == files = Files0 /\ repo = Repo0 /\ ops = <<>>

BadVersioning ==
    versioning = None \/ versioning = <<>> \/ ~StartsWith(versioning, <<"t", "a", "g">>)

\* one of the conditions the gates test holds of the inputs of the call
SomeGateFails ==
    \/ BadVersioning
    \/ pc \notin {"start", "branch"} /\ branch # S_master
    \/ ResolveActed /\ gv = <<>>
    \/ ResolveActed /\ gv # <<>> /\ (gv[1].broken \/ (commit /\ gv[1].dirty))

\* C1: whenever a validation gate fails (versioning not starting with tag, branch
\* not master, no version resolved, broken version, or commit with a dirty version),
\* bump has aborted with a usage error and nothing was written or issued.
C1_GateFailureIsCleanUsageError ==
    (cmd = "bump" /\ pc \notin {"start", "branch", "resolve", "gates"} /\ SomeGateFails)
        => (pc = "failed" /\ err.kind = "UsageError" /\ NoEffects)

\* C2: with the commit flag false no file changes, nothing is performed on the
\* repository, and every operation issued is issued in dryrun mode.
C2_DryRunChangesNothing ==
    (cmd = "bump" /\ ~commit)
        => /\ files = Files0
           /\ repo = Repo0
           /\ \A i \in DOMAIN ops : ops[i].mode = "dryrun"

\* a dry run that went through all its steps and issued add, commit, tag, push and hook
C2_Witness ==
    cmd = "bump" /\ ~commit /\ pc = "done" /\ Len(ops) = 5

\* the main segment of the resolved version has fewer than 3 components
ShortMain == gv # <<>> /\ Len(LooseVersion(gv[1].main)) < 3

\* C3: a patch bump on a version whose main segment has fewer than 3 components
\* (also a single one) fails with a usage error, before any mutation.
C3_PatchOnShortMainIsUsageError ==
    (ComputeActed /\ what = "patch" /\ ShortMain)
        => (pc = "failed" /\ err.kind = "UsageError" /\ NoEffects)

\* C4: when git describe yields nothing (and there is no package fallback), the
\* resolver returns None whatever git diff answers, and bump aborts with the usage
\* error "Could not determine version from git tags".
C4_NoDescribeIsNoVersionUsageError ==
    (ResolveActed /\ get_git_output(git_dir, describe_out) \in {None, <<>>})
        => /\ gv = <<>>
           /\ pc \in {"gates", "failed"}
           /\ pc = "failed" => err = [kind |-> "UsageError", msg |-> "NoVersion"]

\* the bump kinds that bump accepts for the resolved version
AcceptedKind == what \in {"major", "minor"} \/ (what = "patch" /\ ~gv[1].auto_patch)

\* the number at place i of the resolved version, 0 when it has no such place
NumberAt(i) ==
    IF i <= Len(gv[1].version) /\ gv[1].version[i].int THEN gv[1].version[i].n ELSE 0

\* C5: for every resolved version that passed the gates, the next version is
\* major+1.0.0 for major, major.minor+1.0 for minor and major.minor.patch+1 for a
\* patch without auto_patch, from the first three components; it is written
\* major.minor with auto_patch and major.minor.patch without.
C5_NextVersionIsBumpedTriple ==
    (ComputeActed /\ AcceptedKind)
        => next_version =
             (IF what = "major" THEN IntToStr(NumberAt(1) + 1) \o <<".", "0">>
              ELSE IF what = "minor"
              THEN IntToStr(NumberAt(1)) \o <<".">> \o IntToStr(NumberAt(2) + 1)
              ELSE IntToStr(NumberAt(1)) \o <<".">> \o IntToStr(NumberAt(2)))
             \o (IF gv[1].auto_patch THEN <<>>
                 ELSE IF what = "patch" THEN <<".">> \o IntToStr(NumberAt(3) + 1)
                 ELSE <<".", "0">>)

\* Version(text) was constructed from a text the grammar matches
Constructed == cmd = "Version" /\ ver # <<>> /\ ver[1].main # None

\* C6: for a describe text that is neither dirty nor broken, canonical is main when
\* main has 3 components and changes is 0, main + 'b' + N when main has 3 components
\* and N > 0 changes, and main + '.' + N with auto_patch when main has 2 components;
\* auto_patch is false with 3 components.
C6_CanonicalOfCleanDescribe ==
    (Constructed /\ ~ver[1].dirty /\ ~ver[1].broken)
        => /\ (Len(LooseVersion(ver[1].main)) = 3 /\ ver[1].changes = 0)
                => (ver[1].canonical = ver[1].main /\ ~ver[1].auto_patch)
           /\ (Len(LooseVersion(ver[1].main)) = 3 /\ ver[1].changes > 0)
                => (ver[1].canonical = ver[1].main \o <<"b">> \o IntToStr(ver[1].changes)
                    /\ ~ver[1].auto_patch)
           /\ Len(LooseVersion(ver[1].main)) = 2
                => (ver[1].canonical = ver[1].main \o <<".">> \o IntToStr(ver[1].changes)
                    /\ ver[1].auto_patch)

\* a 3-component main with changes, and a 2-component main without, were constructed
C6_Witness ==
    /\ Constructed /\ ~ver[1].dirty /\ ~ver[1].broken
    /\ text = <<"v", "1", ".", "4", ".", "3", "-", "1", "-", "g", "a", "b", "c", "1">>
    /\ ver[1].canonical = <<"1", ".", "4", ".", "3", "b", "1">>

\* C7: for a text that is neither dirty nor broken, the Version of the canonical
\* string of Version(text) has the same canonical string.
C7_RoundTrip ==
    (Constructed /\ pc = "done" /\ ~ver[1].dirty /\ ~ver[1].broken)
        => ver2[1].canonical = ver[1].canonical

\* git_version has returned, in a project where git describe printed a text
Returned == pc \in {"gates", "done"} /\ cmd = "git_version" /\ describe_out # None

\* C8: when the describe text contains -dirty and git diff reports a clean tree, the
\* Version returned is not dirty and its canonical has no dev suffix; when git diff
\* reports changes the Version is dirty.
C8_CleanTreeIsNeverDirty ==
    (Returned /\ gv # <<>> /\ Contains(describe_out, S_dirty))
        => /\ diff_exit = 0
                => (~gv[1].dirty /\ ~Contains(gv[1].canonical, <<"d", "e", "v">>))
           /\ diff_exit # 0 => gv[1].dirty

\* C9 as stated: the commit field is the commit group without its -g marker:
\* v1.2.3-5-gabc123 has commit abc123, changes 5, canonical 1.2.3b5, and
\* v1.4-7-gdead-dirty has canonical 1.4.7dev-dead, auto_patch and dirty.
C9_CommitWithoutMarker ==
    Constructed
        => /\ text = T_1_2_3_5_gabc123
                => /\ ver[1].commit = <<"a", "b", "c", "1", "2", "3">>
                   /\ ver[1].changes = 5
                   /\ ver[1].canonical = <<"1", ".", "2", ".", "3", "b", "5">>
           /\ text = T_1_4_7_gdead_dirty
                => /\ ver[1].canonical
                        = <<"1", ".", "4", ".", "7", "d", "e", "v", "-", "d", "e", "a", "d">>
                   /\ ver[1].auto_patch /\ ver[1].dirty

\* C9 as amended: the commit field is the commit group without its leading dash,
\* the g marker kept: v1.2.3-5-gabc123 has commit gabc123, changes 5, canonical
\* 1.2.3b5, and v1.4-7-gdead-dirty has canonical 1.4.7dev-gdead, auto_patch and dirty.
C9_CommitKeepsMarker ==
    Constructed
        => /\ ver[1].commit # None
                => /\ ToLower(ver[1].commit[1]) = "g"
                   /\ Contains(text, <<"-">> \o ver[1].commit)
           /\ text = T_1_2_3_5_gabc123
                => /\ ver[1].commit = <<"g", "a", "b", "c", "1", "2", "3">>
                   /\ ver[1].changes = 5
                   /\ ver[1].canonical = <<"1", ".", "2", ".", "3", "b", "5">>
           /\ text = T_1_4_7_gdead_dirty
                => /\ ver[1].canonical
                        = <<"1", ".", "4", ".", "7", "d", "e", "v", "-", "g", "d", "e", "a", "d">>
                   /\ ver[1].auto_patch /\ ver[1].dirty

\* Version was constructed from v1.4-7-gdead-dirty and captured the commit
C9_Witness ==
    Constructed /\ text = T_1_4_7_gdead_dirty /\ ver[1].commit = <<"g", "d", "e", "a", "d">>

\* the place of an operation in the order of bump's external effects
Rank(o) ==
    IF o.op = "add" THEN 1
    ELSE IF o.op = "commit" THEN 2
    ELSE IF o.op = "tag" THEN 3
    ELSE IF o.op = "push" THEN 4
    ELSE 5

\* C10: in a bump that passed the gates the external operations are issued in the
\* order stage, commit, tag v{next_version} with message Version {next_version},
\* push of the tags to origin on the validated branch, hook; the tag comes after
\* the source update, the push right after the tag, the hook right after the push,
\* and a completed bump has run the hook exactly when versioning contains a +.
C10_EffectsInOrder ==
    cmd = "bump"
        => /\ \A i, j \in DOMAIN ops : i < j => Rank(ops[i]) < Rank(ops[j])
           /\ \A i \in DOMAIN ops :
                /\ ops[i].op = "commit" => (i > 1 /\ ops[i - 1].op = "add")
                /\ ops[i].op = "tag"
                     => /\ pc \in {"push", "hook", "done", "failed"}
                        /\ ops[i].name = <<"v">> \o next_version
                        /\ ops[i].msg = <<"V", "e", "r", "s", "i", "o", "n", " ">> \o next_version
                /\ ops[i].op = "push"
                     => /\ i > 1 /\ ops[i - 1].op = "tag"
                        /\ ops[i].paths = <<"origin">>
                        /\ ops[i].name = S_master /\ branch = S_master
                /\ ops[i].op = "hook"
                     => /\ i > 1 /\ ops[i - 1].op = "push"
                        /\ Contains(versioning, <<"+">>)
           /\ ops # <<>> => PassedGates
           /\ (files # Files0 /\ pc \in {"tag", "push", "hook", "done"})
                => (Len(ops) >= 2 /\ ops[1].op = "add" /\ ops[2].op = "commit")
           /\ pc = "done"
                => /\ \E i \in DOMAIN ops : ops[i].op = "push"
                   /\ (ops[Len(ops)].op = "hook") = Contains(versioning, <<"+">>)
                   /\ ops[Len(ops)].op \in {"push", "hook"}

\* a committed bump that staged, committed, tagged, pushed and ran the hook
C10_Witness ==
    /\ cmd = "bump" /\ commit /\ pc = "done"
    /\ Len(ops) = 5
    /\ Len(repo.commits) = 1 /\ Len(repo.tags) = 1 /\ Len(repo.pushed) = 1 /\ Len(repo.hooks) = 1

\* the number of operations of kind k among the first n handed to run_program
RECURSIVE CountOps(_, _)
CountOps(k, n) ==
    IF n = 0 THEN 0 ELSE CountOps(k, n - 1) + (IF ops[n].op = k THEN 1 ELSE 0)

\* a command run in commit mode has failed
CommandFailed == cmd = "bump" /\ pc = "failed" /\ err.kind = "SystemExit"

\* the operations that were performed: all those issued, but the one that failed
NumPerformed == IF CommandFailed THEN Len(ops) - 1 ELSE Len(ops)

\* C11: in commit mode a failing stage, commit, tag, push or hook command ends the
\* bump with that failure: the failed command is the last one issued, no command
\* is issued twice, every command issued before it was performed and stays so, and
\* the files written by update_sources stay written.
C11_CommandFailureIsFatal ==
    (cmd = "bump" /\ commit)
        => /\ CommandFailed => (ops # <<>> /\ PassedGates)
           /\ \A k \in {"add", "commit", "tag", "push", "hook"} : CountOps(k, Len(ops)) <= 1
           /\ Len(repo.commits) = CountOps("commit", NumPerformed)
           /\ Len(repo.tags) = CountOps("tag", NumPerformed)
           /\ Len(repo.pushed) = CountOps("push", NumPerformed)
           /\ Len(repo.hooks) = CountOps("hook", NumPerformed)
           /\ (ops # <<>> /\ next_version # None)
                => files = Updated(vdefs, Files0, next_version, commit).files

\* files were written and committed, then the push failed
C11_Witness ==
    /\ CommandFailed /\ commit
    /\ files # Files0
    /\ Len(repo.commits) = 1 /\ Len(repo.tags) = 1 /\ Len(repo.pushed) = 0
    /\ ops[Len(ops)].op = "push"

\* update_sources has returned to bump
UpdateActed ==
    /\ cmd = "bump" /\ vdefs # None
    /\ pc \in {"tag", "push", "hook", "done"} \/ CommandFailed

\* update_sources has returned or raised
UpdateEnded == UpdateActed \/ (cmd = "bump" /\ pc = "failed" /\ err.msg = "update_sources")

IsPySource(i) == Contains(vdefs[i], <<".", "p", "y", ":">>)

SourcePath(i) == PartitionKey(vdefs[i], ":")

SourceLine(i) == ToInt(PartitionValue(vdefs[i], ":"))

\* source i names a line of a file of the project
HasTarget(i) ==
    /\ IsPySource(i)
    /\ SourcePath(i) \in DOMAIN Files0
    /\ SourceLine(i) \in DOMAIN Files0[SourcePath(i)]

TargetLine(i) == Files0[SourcePath(i)][SourceLine(i)]

\* the revised target line of source i is None or the line itself
Unrevised(i) ==
    HasTarget(i) /\ updated_line(TargetLine(i), next_version) \in {None, TargetLine(i)}

\* the revised target line of source i is a different line
Revised(i) ==
    HasTarget(i) /\ updated_line(TargetLine(i), next_version) \notin {None, TargetLine(i)}

\* the paths update_sources recorded as modified: those it hands to git add
ModifiedPaths ==
    UNION {{ops[k].paths[p] : p \in DOMAIN ops[k].paths} : k \in {n \in DOMAIN ops : ops[n].op = "add"}}

\* C12: a source whose revised line is the original line, or None for an unknown
\* format, is skipped: its file is left as it was, its path is not recorded as
\* modified, the sources after it are still processed, and an update whose sources
\* all name a line of a file does not raise.
C12_UnrevisedSourceIsSkipped ==
    /\ UpdateActed =>
          \A i \in DOMAIN vdefs :
              Unrevised(i)
                  => /\ files[SourcePath(i)] = Files0[SourcePath(i)]
                     /\ SourcePath(i) \notin ModifiedPaths
                     /\ \A j \in DOMAIN vdefs :
                           (j > i /\ Revised(j))
                               => /\ SourcePath(j) \in ModifiedPaths
                                  /\ commit => files[SourcePath(j)][SourceLine(j)]
                                                  = updated_line(TargetLine(j), next_version)
    /\ (UpdateEnded /\ \A i \in DOMAIN vdefs : IsPySource(i) => HasTarget(i))
          => UpdateActed

\* a.py:2 has an unknown format and was skipped, b.py:2 after it was rewritten
C12_Witness ==
    /\ UpdateActed /\ commit /\ Len(vdefs) = 2
    /\ Unrevised(1) /\ updated_line(TargetLine(1), next_version) = None
    /\ Revised(2)
    /\ files[P_a] = Files0[P_a] /\ files[P_b] # Files0[P_b]

\* update_sources has returned to bump, whatever the version definition
UpdateReturned == cmd = "bump" /\ (pc \in {"tag", "push", "hook", "done"} \/ CommandFailed)

\* the files whose content is not what it was before the bump
ChangedFiles == {p \in DOMAIN Files0 : files[p] # Files0[p]}

\* C13: with commit true, after the sources are processed, a stage and a commit are
\* issued exactly when a file was modified; the stage names exactly the modified
\* files and the one commit has the message Version {next_version}; with no
\* modified file neither is issued.
C13_StageAndCommitIffModified ==
    (UpdateReturned /\ commit)
        => /\ ChangedFiles = {} => (CountOps("add", Len(ops)) = 0 /\ CountOps("commit", Len(ops)) = 0)
           /\ ChangedFiles # {}
                => /\ ops[1].op = "add"
                   /\ {ops[1].paths[p] : p \in DOMAIN ops[1].paths} = ChangedFiles
                   /\ Len(ops[1].paths) = Cardinality(ChangedFiles)
                   /\ CountOps("commit", Len(ops)) <= 1
                   /\ Len(ops) >= 2 => (ops[2].op = "commit" /\ ops[2].msg = VersionMsg(next_version))
                   /\ pc # "failed" => Len(ops) >= 2

\* source i names a line number past the end of an existing file
PastEnd(i) ==
    /\ IsPySource(i)
    /\ SourcePath(i) \in DOMAIN Files0
    /\ SourceLine(i) \notin DOMAIN Files0[SourcePath(i)]

\* C18: every path recorded as modified is the file of a source whose target line
\* was replaced by a different line; a source whose line number is past the end
\* of its file is not recorded as modified and raises nothing in a dry run.
C18_ModifiedMeansRevised ==
    /\ UpdateActed =>
          /\ \A p \in ModifiedPaths : \E i \in DOMAIN vdefs : SourcePath(i) = p /\ Revised(i)
          /\ \A i \in DOMAIN vdefs : PastEnd(i) => SourcePath(i) \notin ModifiedPaths
    /\ (UpdateEnded /\ ~commit /\ \E i \in DOMAIN vdefs : PastEnd(i)) => UpdateActed

S_brokenword == <<"b", "r", "o", "k", "e", "n">>

S_dev == <<"d", "e", "v">>

\* the canonical form before the suffixes of the flags: main, completed or with
\* the number of changes
BaseForm ==
    ver[1].main
    \o (IF Len(LooseVersion(ver[1].main)) < 3 THEN <<".">> \o IntToStr(ver[1].changes)
        ELSE IF ver[1].changes > 0 THEN <<"b">> \o IntToStr(ver[1].changes)
        ELSE <<>>)

\* what follows the base form in canonical
AfterBase == Tail_(ver[1].canonical, Len(BaseForm) + 1)

\* C14: canonical is the base form, then broken when the broken flag is set, then
\* dev when the dirty flag is set, then - and the commit when dirty and a commit
\* was captured; the commit is not in canonical when the version is not dirty,
\* and broken never follows dev.
C14_SuffixesInOrder ==
    Constructed
        => /\ StartsWith(ver[1].canonical, BaseForm)
           /\ AfterBase =
                 (IF ver[1].broken /\ ver[1].dirty /\ ver[1].commit # None
                  THEN S_brokenword \o S_dev \o <<"-">> \o ver[1].commit
                  ELSE IF ver[1].broken /\ ver[1].dirty THEN S_brokenword \o S_dev
                  ELSE IF ver[1].broken THEN S_brokenword
                  ELSE IF ver[1].dirty /\ ver[1].commit # None
                  THEN S_dev \o <<"-">> \o ver[1].commit
                  ELSE IF ver[1].dirty THEN S_dev
                  ELSE <<>>)
           /\ (~ver[1].dirty /\ ver[1].commit # None)
                => ~Contains(ver[1].canonical, ver[1].commit)
           /\ ~Contains(ver[1].canonical, S_dev \o S_brokenword)

\* a broken and dirty text with a commit: v1.4.3-1-gabc1-broken-dirty
C14_Witness ==
    /\ Constructed /\ ver[1].broken /\ ver[1].dirty /\ ver[1].commit = <<"g", "a", "b", "c", "1">>
    /\ ver[1].canonical = <<"1", ".", "4", ".", "3", "b", "1">> \o S_brokenword \o S_dev
                             \o <<"-", "g", "a", "b", "c", "1">>

\* updated_line has returned for the line
LineRewritten == cmd = "updated_line" /\ pc \in {"revised", "done"}

\* the separator of the line: = when the line has one, else :
LineSep == IF Contains(line, <<"=">>) THEN "=" ELSE ":"

LineKey == PartitionKey(line, LineSep)

LineValue == PartitionValue(line, LineSep)

\* C15: for a line with a separator and a non-empty key and value, the rewritten
\* line is the key as it was, the separator, one space exactly when the value began
\* with a space, the replacement and one newline; the replacement is the quoted
\* next version for =, followed by a comma unless the trimmed key starts with an
\* underscore, and the bare next version for :.
C15_RewrittenLine ==
    (LineRewritten /\ LineKey # <<>> /\ LineValue # <<>>)
        => revised[1] =
             LineKey \o <<LineSep>>
             \o (IF LineValue[1] = " " THEN <<" ">> ELSE <<>>)
             \o (IF LineSep = ":" THEN next_version
                 ELSE IF StartsWith(Strip(LineKey), <<"_">>)
                 THEN <<Quote>> \o next_version \o <<Quote>>
                 ELSE <<Quote>> \o next_version \o <<Quote, ",">>)
             \o <<"\n">>

\* ' _v = 1' without a newline was rewritten with the quoted version and no comma
C15_Witness ==
    /\ LineRewritten
    /\ line = <<" ", "_", "v", " ", "=", " ", "1">>
    /\ next_version = <<"1", ".", "5">>
    /\ revised[1] = <<" ", "_", "v", " ", "=", " ", Quote, "1", ".", "5", Quote, "\n">>

\* C19: update_sources run a second time in commit mode with the same next version
\* changes no file and issues no stage or commit, and updated_line applied to its
\* own output with the same version returns that line.
C19_UpdateIsIdempotent ==
    /\ [][(cmd = "update_sources" /\ pc = "tag" /\ commit)
             => (files' = files /\ ops' = ops /\ repo' = repo /\ pc' = "done")]_vars
    /\ [](cmd = "updated_line" /\ pc = "done" => revised2 = revised)

\* the version resolved is broken
BrokenResolved == gv # <<>> /\ gv[1].broken

\* C16: a broken resolved version is rejected by both flows: auto_fill_version
\* fills no version and only warns, bump aborts with the usage error of the invalid
\* tag before any effect; v2.0.0-broken is broken with canonical 2.0.0broken.
C16_BrokenIsRejected ==
    /\ (cmd = "auto_fill_version" /\ pc = "done" /\ BrokenResolved)
          => (filled = None /\ warned = <<"InvalidTag">>)
    /\ (cmd = "auto_fill_version" /\ filled # None)
          => (gv # <<>> /\ ~gv[1].broken /\ filled = gv[1].canonical)
    /\ (cmd = "bump" /\ pc \notin {"start", "branch", "resolve", "gates"} /\ BrokenResolved)
          => (pc = "failed" /\ err = [kind |-> "UsageError", msg |-> "BrokenTag"] /\ NoEffects)
    /\ (describe_out = T_v2_0_0_broken /\ gv # <<>>)
          => (gv[1].broken /\ gv[1].canonical = <<"2", ".", "0", ".", "0">> \o S_brokenword)

\* auto_fill_version has returned in a project whose describe is v2.0.0-broken
C16_Witness ==
    /\ cmd = "auto_fill_version" /\ pc = "done"
    /\ describe_out = T_v2_0_0_broken
    /\ BrokenResolved /\ warned = <<"InvalidTag">>

\* the error bump ended with
Reported(msg) == pc = "failed" /\ err.msg = msg

\* the git queries of bump, in the order the gates make them
GateQueries == <<"rev-parse", "describe", "diff">>

\* C17: the gates are evaluated in the order strategy, branch, resolve, broken,
\* dirty when committing: the error reported is that of the first failing gate,
\* no query of a later gate is made after a failure, and the bump kind is checked
\* only after all gates passed and before any effect.
C17_GatesInOrder ==
    cmd = "bump"
        => /\ Len(queries) <= 3 /\ queries = SubSeq(GateQueries, 1, Len(queries))
           /\ (pc # "start" /\ BadVersioning)
                => (Reported("NotConfigured") /\ queries = <<>>)
           /\ (pc \notin {"start", "branch"} /\ ~BadVersioning /\ branch # S_master)
                => (Reported("WrongBranch") /\ Len(queries) <= 1 /\ gv = <<>>)
           /\ Reported("NotConfigured") => BadVersioning
           /\ Reported("WrongBranch") => (~BadVersioning /\ branch # S_master)
           /\ Reported("NoVersion") => (~BadVersioning /\ branch = S_master /\ gv = <<>>)
           /\ Reported("BrokenTag")
                => (~BadVersioning /\ branch = S_master /\ gv # <<>> /\ gv[1].broken)
           /\ Reported("PendingChanges")
                => /\ ~BadVersioning /\ branch = S_master /\ gv # <<>>
                   /\ ~gv[1].broken /\ commit /\ gv[1].dirty
           /\ (Reported("UnknownTarget") \/ Reported("AutoPatch"))
                => /\ ~BadVersioning /\ branch = S_master /\ gv # <<>>
                   /\ ~gv[1].broken /\ ~(commit /\ gv[1].dirty)
                   /\ NoEffects
           /\ (pc = "failed" /\ err.msg \in GateMsgs) => NoEffects

\* the strategy and the branch are both wrong: the strategy is reported, no query made
C17_Witness ==
    /\ cmd = "bump" /\ BadVersioning /\ git_dir
    /\ Stripped(branch_out) # S_master
    /\ Reported("NotConfigured") /\ queries = <<>>

\* a < b in the component-wise order of versions, from component i on: the first
\* components that differ decide, a proper prefix is smaller, and a number and a
\* string are not ordered
RECURSIVE VersionLessFrom(_, _, _)
VersionLessFrom(a, b, i) ==
    IF i > Len(a) THEN i <= Len(b)
    ELSE IF i > Len(b) THEN FALSE
    ELSE IF a[i] = b[i] THEN VersionLessFrom(a, b, i + 1)
    ELSE a[i].int /\ b[i].int /\ a[i].n < b[i].n

VersionLess(a, b) == VersionLessFrom(a, b, 1)

\* C20: the next version bump computes is strictly greater, component by
\* component, than the main version of the current tag and than the canonical
\* version resolved, also with commits past the tag.
C20_NextVersionIsGreater ==
    (cmd = "bump" /\ next_version # None)
        => /\ VersionLess(LooseVersion(gv[1].main), LooseVersion(next_version))
           /\ VersionLess(gv[1].version, LooseVersion(next_version))

\* a completed patch bump one commit past the tag v1.4.3: 1.4.3b1 to 1.4.4
C20_Witness ==
    /\ cmd = "bump" /\ pc = "done" /\ what = "patch"
    /\ gv[1].canonical = <<"1", ".", "4", ".", "3", "b", "1">>
    /\ next_version = <<"1", ".", "4", ".", "4">>

====
